---- MODULE Spec2Model ----
(***************************************************************************)
(* A model of python-idex's depth-cache synchronisation engine:            *)
(*   - DepthCache                 src/idex/asyncio/depthcache.py           *)
(*   - DepthCacheManager          src/idex/asyncio/depthcache.py           *)
(*   - ReconnectingWebsocket and IdexSocketManager                         *)
(*                                src/idex/asyncio/websockets.py           *)
(* Three specifications share the module: SpecCache drives one DepthCache  *)
(* by direct calls, SpecStream runs the inbound loop of one                *)
(* ReconnectingWebsocket, SpecManager runs one DepthCacheManager.          *)
(***************************************************************************)
EXTENDS Integers, Sequences, FiniteSets, TLC

\* ------------------------------------------------------------------ bounds
\* Order hashes that occur in calls, snapshots and events.
Hashes == {"h1", "h2", "h3"}
\* Prices are strings in the code and are compared as strings (dict keys).
\* A price key is <<v, z>>: the number v written with z trailing zeros, so
\* <<1, 0>> ("1") and <<1, 1>> ("1.0") are two keys with the same value.
MaxPrice == 2
Pads == {0}
\* The price keys of the direct calls: every price in its plain form, and the
\* price 1 also in its padded form
PriceKeys == ((1..MaxPrice) \X Pads) \cup {<<1, 1>>}
\* Amounts are decimal strings; Decimal(amount) is modelled by an integer.
MaxAmount == 2
Amounts == 1..MaxAmount
\* Level quantities explored: a call is taken only while every level stays
\* within -MaxLevel..MaxLevel.
MaxLevel == 2

None == [none |-> TRUE]

\* ------------------------------------------------------------- DepthCache
\* The state of one DepthCache object: _bids and _asks map a price key to
\* the level quantity, _orders maps an order hash to (price, amount).
EmptyMap == <<>>

DepthCacheNew == [bids |-> EmptyMap, asks |-> EmptyMap, orders |-> EmptyMap]

\* d[k] = v, creating the key when absent
MapPut(d, k, v) == [x \in (DOMAIN d) \cup {k} |-> IF x = k THEN v ELSE d[x]]

\* del d[k]
MapDel(d, k) == [x \in (DOMAIN d) \ {k} |-> d[x]]

\* d[price] = Decimal(0) when absent, then d[price] += Decimal(amount)
LevelAdd(d, price, amount) ==
    LET cur == IF price \in DOMAIN d THEN d[price] ELSE 0
    IN  MapPut(d, price, cur + amount)

\* d[price] -= Decimal(amount); del d[price] when the result is Decimal(0)
LevelSub(d, price, amount) ==
    IF d[price] - amount = 0
    THEN MapDel(d, price)
    ELSE MapPut(d, price, d[price] - amount)

\* add_bid without the duplicate check (a mutation of add_bid)
add_bid_no_dup_check(dc, order_hash, amount, price) ==
    [dc EXCEPT !.orders = MapPut(dc.orders, order_hash, <<price, amount>>),
               !.bids = LevelAdd(dc.bids, price, amount)]

\* DepthCache.add_bid
add_bid(dc, order_hash, amount, price) ==
    IF order_hash \in DOMAIN dc.orders
    THEN dc
    ELSE [dc EXCEPT !.orders = MapPut(dc.orders, order_hash, <<price, amount>>),
                    !.bids = LevelAdd(dc.bids, price, amount)]

\* DepthCache.add_ask
add_ask(dc, order_hash, amount, price) ==
    IF order_hash \in DOMAIN dc.orders
    THEN dc
    ELSE [dc EXCEPT !.orders = MapPut(dc.orders, order_hash, <<price, amount>>),
                    !.asks = LevelAdd(dc.asks, price, amount)]

\* A cancel that takes an unknown hash for a fault and empties the cache
cancel_order_clears_unknown(dc, order_hash) ==
    IF order_hash \notin DOMAIN dc.orders THEN DepthCacheNew
    ELSE [dc EXCEPT !.orders = MapDel(dc.orders, order_hash)]

\* DepthCache.cancel_order: the index holds (price, amount) and no side, so
\* the side is found by looking the price up in _bids first, then in _asks.
cancel_order(dc, order_hash) ==
    IF order_hash \notin DOMAIN dc.orders
    THEN dc
    ELSE LET price == dc.orders[order_hash][1]
             amount == dc.orders[order_hash][2]
             levels == IF price \in DOMAIN dc.bids
                       THEN [dc EXCEPT !.bids = LevelSub(dc.bids, price, amount)]
                       ELSE IF price \in DOMAIN dc.asks
                            THEN [dc EXCEPT !.asks = LevelSub(dc.asks, price, amount)]
                            ELSE dc
         IN  [levels EXCEPT !.orders = MapDel(dc.orders, order_hash)]

\* float(price): the value of the price string, whatever its form
float(price) == price[1]

\* The orders in which the keys of a dict can come
Perms(S) ==
    {f \in [1..Cardinality(S) -> S] : \A i, j \in 1..Cardinality(S) : i # j => f[i] # f[j]}

\* DepthCache.sort_depth: the [float(price), quantity] entries of vals, sorted
\* by the float price. sorted() leaves entries of equal float price in the
\* order of the dict, which the maps of the model do not record: the result is
\* the set of the lists sorted() can return.
sort_depth(vals, reverse) ==
    LET n == Cardinality(DOMAIN vals)
        sorted(f) == \A i \in 1..(n - 1) :
                        IF reverse THEN float(f[i]) >= float(f[i + 1])
                        ELSE float(f[i]) =< float(f[i + 1])
    IN  {[i \in 1..n |-> <<float(f[i]), vals[f[i]]>>] : f \in {g \in Perms(DOMAIN vals) : sorted(g)}}

\* DepthCache.get_bids / get_asks
get_bids(dc) == sort_depth(dc.bids, TRUE)
get_asks(dc) == sort_depth(dc.asks, FALSE)

\* -------------------------------------------------- ReconnectingWebsocket
Markets == {"ETH_A", "ETH_B"}

MAX_RECONNECTS == 3
\* MIN_RECONNECT_WAIT = 0.1 s, in tenths of a second
MIN_RECONNECT_WAIT == 1

\* _reconnect with line 66 reading an attribute that exists and cancel() not
\* cancelling the running task: lines 67-69 are reached (a mutation)
reconnect_completes(reconnects) ==
    [reconnects |-> reconnects + 1,
     next |-> IF reconnects + 1 < MAX_RECONNECTS THEN "connect" ELSE "gave_up",
     report |-> "none"]

\* ReconnectingWebsocket._reconnect, called by the task self._conn itself
\* from the ConnectionClosed handler of _run.
\*   line 62  await self.cancel(): Task.cancel() on the running task; asyncio
\*            throws CancelledError into it at its next suspension
\*   line 63  self._reconnects += 1
\*   line 66  below the cap: the argument self._path is evaluated, and no
\*            statement of the class assigns _path: AttributeError. (Were it
\*            assigned, the sleep of line 67 is the next suspension and raises
\*            CancelledError.) Either way lines 68-69, self._connect()
\*            included, are not executed: "abort"
\*   line 72  at the cap: pass; nothing is raised and nobody is called
_reconnect(reconnects) ==
    [reconnects |-> reconnects + 1,
     next |-> IF reconnects + 1 < MAX_RECONNECTS THEN "abort" ELSE "gave_up",
     report |-> "none"]

\* The frames a socket may deliver: text that is not JSON, a JSON object
\* without 'topic', a JSON object with 'topic' m and a 'message'.
Frames(subSent) == {<<"badjson">>, <<"notopic">>} \cup {<<"topic", m>> : m \in subSent}

\* ------------------------------------------------------ DepthCacheManager
\* The market "ETH_LTO": base token ETH, quote token LTO
BaseToken == "ETH"
QuoteToken == "LTO"

\* 10 ^ decimals of a currency (one decimal place for both tokens)
Pow10 == 10

\* Prices are counted in units of 1 / PriceScale, so that the quotient of two
\* quantities of the model is a whole number of units
PriceScale == 2

\* The orders the exchange knows, as the stream announces them (raw
\* quantities in the smallest unit of each token):
\*   h1  buys LTO:  1 LTO for 1 ETH      (a bid of 1 at price 1)
\*   h2  buys ETH:  2 ETH for 1 LTO      (an ask of 1 at price 2)
\*   h3  buys LTO:  2 LTO for 4 ETH      (a bid of 2 at price 2, the price of h2)
WireOrder(h) ==
    CASE h = "h1" -> [hash |-> h, tokenBuy |-> QuoteToken, amountBuy |-> 10, amountSell |-> 10]
      [] h = "h2" -> [hash |-> h, tokenBuy |-> BaseToken, amountBuy |-> 20, amountSell |-> 10]
      [] h = "h3" -> [hash |-> h, tokenBuy |-> QuoteToken, amountBuy |-> 20, amountSell |-> 40]

\* The same orders as the REST order book lists them
RestOrder(h) ==
    CASE h = "h1" -> [orderHash |-> h, amount |-> 1, price |-> <<1 * PriceScale, 0>>]
      [] h = "h2" -> [orderHash |-> h, amount |-> 1, price |-> <<2 * PriceScale, 0>>]
      [] h = "h3" -> [orderHash |-> h, amount |-> 2, price |-> <<2 * PriceScale, 0>>]

RestBids == {"h1", "h3"}
RestAsks == {"h2"}

\* The order books get_order_book can return
OrderBooks == [bids : SUBSET RestBids, asks : SUBSET RestAsks]

\* The longest list of orders or cancels in one event
MaxBatch == 2

Batches == {s \in UNION {[1..n -> Hashes] : n \in 1..MaxBatch} :
               \A i, j \in DOMAIN s : i # j => s[i] # s[j]}

\* The messages the stream hands to _depth_event
Events ==
    {[event |-> "none"], [event |-> "market_trades"]}
    \cup {[event |-> "market_orders", orders |-> s] : s \in Batches}
    \cup {[event |-> "market_cancels", cancels |-> s] : s \in Batches}

\* client.parse_from_currency_quantity: the raw quantity over 10^decimals
parse_from_currency_quantity(currency, quantity) == quantity \div Pow10

\* f'{(a / b):.18}': the quotient as a price key
price_of(a, b) == <<(a * PriceScale) \div b, 0>>

\* An orders loop that takes every order for a bid
order_event_all_bids(dc, orders, i) ==
    LET order == WireOrder(orders[i])
        sell_parsed == parse_from_currency_quantity(BaseToken, WireOrder(orders[1]).amountSell)
        buy_parsed == parse_from_currency_quantity(QuoteToken, WireOrder(orders[1]).amountBuy)
    IN  add_bid(dc, order.hash, buy_parsed, price_of(sell_parsed, buy_parsed))

\* _depth_event lines 248-265 for the i-th order of the payload
order_event(dc, orders, i) ==
    LET order == WireOrder(orders[i])
        buy == WireOrder(orders[1]).amountBuy
        sell == WireOrder(orders[1]).amountSell
    IN  IF order.tokenBuy = BaseToken
        THEN LET sell_parsed == parse_from_currency_quantity(QuoteToken, sell)
                 buy_parsed == parse_from_currency_quantity(BaseToken, buy)
             IN  add_ask(dc, order.hash, sell_parsed, price_of(buy_parsed, sell_parsed))
        ELSE LET sell_parsed == parse_from_currency_quantity(BaseToken, sell)
                 buy_parsed == parse_from_currency_quantity(QuoteToken, buy)
             IN  add_bid(dc, order.hash, buy_parsed, price_of(sell_parsed, buy_parsed))

\* _depth_event lines 247-265: the loop over payload['orders']
RECURSIVE orders_loop(_, _, _)
orders_loop(dc, orders, i) ==
    IF i > Len(orders) THEN dc
    ELSE orders_loop(order_event(dc, orders, i), orders, i + 1)

\* _depth_event lines 270-274: the loop over payload['cancels']
RECURSIVE cancels_loop(_, _, _)
cancels_loop(dc, cancels, i) ==
    IF i > Len(cancels) THEN dc
    ELSE cancels_loop(cancel_order(dc, cancels[i]), cancels, i + 1)

\* A handler for which a trade empties the book
apply_event_trade_clears(dc, msg) ==
    CASE msg.event = "market_orders" -> orders_loop(dc, msg.orders, 1)
      [] msg.event = "market_cancels" -> cancels_loop(dc, msg.cancels, 1)
      [] OTHER -> DepthCacheNew

\* _depth_event lines 242-282: what the event does to the depth cache
apply_event(dc, msg) ==
    CASE msg.event = "market_orders" -> orders_loop(dc, msg.orders, 1)
      [] msg.event = "market_cancels" -> cancels_loop(dc, msg.cancels, 1)
      [] OTHER -> dc

\* _init_cache lines 209-210: every bid of the order book
RECURSIVE bids_loop(_, _)
bids_loop(dc, hs) ==
    IF hs = {} THEN dc
    ELSE LET h == CHOOSE x \in hs : TRUE
             bid == RestOrder(h)
         IN  bids_loop(add_bid(dc, bid.orderHash, bid.amount, bid.price), hs \ {h})

\* _init_cache lines 211-212: every ask of the order book
RECURSIVE asks_loop(_, _)
asks_loop(dc, hs) ==
    IF hs = {} THEN dc
    ELSE LET h == CHOOSE x \in hs : TRUE
             ask == RestOrder(h)
         IN  asks_loop(add_ask(dc, ask.orderHash, ask.amount, ask.price), hs \ {h})

\* The depth cache with, for each side, the load its content came from (0: no
\* load, the side of a new DepthCache)
Fresh == [dc |-> DepthCacheNew, bidsFrom |-> 0, asksFrom |-> 0]

\* A load that fills the bids and leaves the asks for a later step
load_bids_only(st, res, k) ==
    [dc |-> bids_loop(st.dc, res.bids), bidsFrom |-> k, asksFrom |-> st.asksFrom]

\* _init_cache lines 209-212: both loops, run without a suspension between
load_order_book(st, res, k) ==
    [dc |-> asks_loop(bids_loop(st.dc, res.bids), res.asks),
     bidsFrom |-> k, asksFrom |-> k]

\* ------------------------------------------------------------ REST clients
\* The client classes: Client and AsyncClient of idex/client.py, and the
\* AsyncClient of idex/asyncio/client.py, whose operations carry the
\* credential guards
ClientPy == {"Client", "AsyncClient"}
Kinds == ClientPy \cup {"asyncio.AsyncClient"}

\* HTTP status codes of a response
Statuses == {200, 204, 404, 500}

\* The text of a response body, by what json.loads makes of it: an object
\* without and with an 'error' key, an array, a string, a scalar (a number,
\* true, false or null), or text that is not JSON (the empty text included)
Bodies == {"object", "error_object", "array", "string", "scalar", "invalid"}

Responses == [status : Statuses, body : Bodies]

\* A credential: never set, set to the empty string, or set
Credentials == {"<None>", "", "0xa1"}

\* Python truth of a credential, as `not self._wallet_address` tests it
Truthy(v) == v \notin {"<None>", ""}

\* How a call ends: a value returned or an exception raised, and whether a
\* request went out
Return(body) == [kind |-> "return", value |-> body, sent |-> TRUE]
Raise(e, sent) == [kind |-> "raise", value |-> e, sent |-> sent]

\* str(status).startswith("2"), on three-digit status codes
Is2xx(status) == status \div 100 = 2

\* IdexAPIException.__init__: text that is not JSON is kept as the message;
\* otherwise `'error' in json_res` is evaluated on whatever was parsed, and
\* on a number, a boolean or null that is a TypeError raised out of the
\* constructor. The result is the exception `raise IdexAPIException(...)`
\* leaves the caller with.
IdexAPIException(text) ==
    IF text = "scalar" THEN "TypeError" ELSE "IdexAPIException"

\* _handle_response of the three classes. In idex/client.py: a status that
\* does not start with 2 raises IdexAPIException(...), a body json() rejects
\* raises IdexRequestException, and the parsed body is returned otherwise.
\* In idex/asyncio/client.py a parsed body is also tested with
\* `'error' in res` before it is returned.
handle_response(kind, response) ==
    IF ~Is2xx(response.status)
    THEN Raise(IdexAPIException(response.body), TRUE)
    ELSE IF response.body = "invalid"
    THEN Raise("IdexRequestException", TRUE)
    ELSE IF kind \in ClientPy
    THEN Return(response.body)
    ELSE IF response.body = "scalar"
    THEN Raise("TypeError", TRUE)
    ELSE IF response.body = "error_object"
    THEN Raise(IdexAPIException(response.body), TRUE)
    ELSE Return(response.body)

\* A guard that lets every call through
require_private_key_unchecked(self, f) == f

\* decorators.py: the guards run before the wrapped operation, which is
\* evaluated only when the credential is set
require_address(self, f) ==
    IF ~Truthy(self.address)
    THEN Raise("IdexWalletAddressNotFoundException", FALSE)
    ELSE f

require_private_key(self, f) ==
    IF ~Truthy(self.key)
    THEN Raise("IdexPrivateKeyNotFoundException", FALSE)
    ELSE f

\* The operations called, one for each stack of guards in use; the guarded
\* ones are operations of idex/asyncio/client.py
Guarded == {"get_my_open_orders", "cancel_order"}
Operations(kind) ==
    IF kind \in ClientPy THEN {"get_tickers"} ELSE {"get_tickers"} \cup Guarded

\* get_tickers, get_my_open_orders and cancel_order: each ends in one request
\* whose response _handle_response turns into the outcome
call(self, op, response) ==
    LET request == handle_response(self.kind, response) IN
    CASE op = "get_tickers" -> request
      [] op = "get_my_open_orders" -> require_address(self, request)
      [] op = "cancel_order" ->
            require_address(self, require_private_key(self, request))

\* --------------------------------------------------------------- variables
VARIABLES
    cache,      \* SpecCache: the DepthCache object under direct calls
    side,       \* SpecCache (ghost): order hash -> the side it was added to
    lastOp      \* SpecCache (ghost): the last call and whether its hash was indexed

VARIABLES
    ws_reconnects,  \* ReconnectingWebsocket._reconnects
    ws_wait,        \* ReconnectingWebsocket._reconnect_wait, in tenths of a second
    ws_socket,      \* ReconnectingWebsocket._socket: "none", or the socket "open" / "closed"
    ws_pc,          \* where the task self._conn (running _run) stands
    ws_cancel,      \* Task.cancel() was called on self._conn and is not yet delivered
    ws_coros,       \* IdexSocketManager._coros: the markets with a handler
    ws_subSent,     \* the markets a subscribe request was sent for on the current socket
    ws_sender,      \* where the caller of subscribe / unsubscribe stands in send_message
    ws_end,         \* (ghost) why the task ended
    ws_report,      \* what the stream has reported to its owner
    ws_fresh,       \* (ghost) the connection was established by the last step
    ws_conns,       \* (ghost) connections established so far
    ws_cancelCalled,    \* (ghost) cancel() has been called
    ws_fwdAfterCancel,  \* (ghost) a frame received after cancel() went to the handler
    ws_sendError,   \* (ghost) the exception the last subscribe / unsubscribe raised
    ws_lastFrame    \* (ghost) the kind of the frame the last step received, "none" after any other step

cacheVars == <<cache, side, lastOp>>

streamVars == <<ws_reconnects, ws_wait, ws_socket, ws_pc, ws_cancel, ws_coros,
                ws_subSent, ws_sender, ws_end, ws_report, ws_fresh, ws_conns,
                ws_cancelCalled, ws_fwdAfterCancel, ws_sendError, ws_lastFrame>>

VARIABLES
    m_interval,     \* DepthCacheManager._refresh_interval (0: refresh disabled)
    m_coro,         \* DepthCacheManager._coro is set
    m_create,       \* where the caller of create() stands
    m_stream,       \* where the stream task stands: waiting for a message or in _depth_event
    m_cancel,       \* the stream task was cancelled and the CancelledError is not yet delivered
    m_depth,        \* DepthCacheManager._depth_cache, with the load each side came from
    m_refreshTime,  \* DepthCacheManager._refresh_time, Unset while the attribute does not exist
    m_now,          \* int(time.time())
    m_loads,        \* (ghost) the calls of _init_cache so far
    m_preLoad,      \* (ghost) _depth_cache as it was when the last _init_cache began, until the next event is handled
    m_fault,        \* (ghost) the exception that ended create() or the stream task
    m_closed,       \* (ghost) close() was called
    m_book,         \* (ghost) the order book of the last load, NoBook from the start of the next
    m_last          \* (ghost) the event of the frame the last step delivered, "none" after any other step

VARIABLES
    cl_kind,         \* the class of the client
    cl_address,      \* _wallet_address
    cl_key,          \* _private_key
    cl_requests,     \* the number of requests that went out
    cl_lastResponse, \* _last_response (idex/client.py only), None before the first
    cl_call,         \* (ghost) the operation and the response of the last call
    cl_out           \* (ghost) how the last call ended

clientVars == <<cl_kind, cl_address, cl_key, cl_requests, cl_lastResponse,
                cl_call, cl_out>>

mgrVars == <<m_interval, m_coro, m_create, m_stream, m_cancel, m_depth,
             m_refreshTime, m_now, m_loads, m_preLoad, m_fault, m_closed, m_book, m_last>>

vars == <<cacheVars, streamVars, mgrVars, clientVars>>

\* What the actions of one specification leave alone
nonCacheVars == <<streamVars, mgrVars, clientVars>>
nonStreamVars == <<cacheVars, mgrVars, clientVars>>
nonManagerVars == <<cacheVars, streamVars, clientVars>>
nonClientVars == <<cacheVars, streamVars, mgrVars>>

\* The seconds the clock of the exploration runs
MaxTime == 2

\* The refresh interval of a manager that refreshes
RefreshInterval == 1

Unset == -1

NoBook == [bids |-> {}, asks |-> {}]

\* The bound of the exploration of the manager: every level quantity of its
\* depth cache within the range
MaxDepth == 3

DepthInRange(dc) ==
    IF dc = None THEN TRUE
    ELSE /\ \A p \in DOMAIN dc.bids : dc.bids[p] \in -MaxDepth..MaxDepth
         /\ \A p \in DOMAIN dc.asks : dc.asks[p] \in -MaxDepth..MaxDepth

\* DepthCacheManager.create lines 181-192: the fields, the currencies resolved
ManagerNew(refresh_interval, coro) ==
    /\ m_interval = refresh_interval
    /\ m_coro = coro
    /\ m_create = "start"
    /\ m_stream = "none"
    /\ m_cancel = FALSE
    /\ m_depth = Fresh
    /\ m_refreshTime = Unset
    /\ m_now = 0
    /\ m_loads = 0
    /\ m_preLoad = DepthCacheNew
    /\ m_fault = "none"
    /\ m_closed = FALSE
    /\ m_book = NoBook
    /\ m_last = "none"

\* ----------------------------------------------------- SpecCache: actions
NoOp == [op |-> "none", known |-> FALSE]

\* The requests one exploration sends
MaxRequests == 2

NoCall == [op |-> "none"]

\* Client.__init__ / AsyncClient.create with the credentials given
ClientNew(kind, address, private_key) ==
    /\ cl_kind = kind
    /\ cl_address = address
    /\ cl_key = private_key
    /\ cl_requests = 0
    /\ cl_lastResponse = None
    /\ cl_call = NoCall
    /\ cl_out = None

\* The explorations of the depth cache, the stream and the manager keep one
\* client that is never called
NoClient == ClientNew("Client", "<None>", "<None>")

CacheNew ==
    /\ cache = DepthCacheNew
    /\ side = EmptyMap
    /\ lastOp = NoOp

\* The bound of the exploration: every level quantity within the range
InRange(dc) ==
    /\ \A p \in DOMAIN dc.bids : dc.bids[p] \in -MaxLevel..MaxLevel
    /\ \A p \in DOMAIN dc.asks : dc.asks[p] \in -MaxLevel..MaxLevel

AddBid(h, a, p) ==
    /\ UNCHANGED nonCacheVars
    /\ InRange(add_bid(cache, h, a, p))
    /\ cache' = add_bid(cache, h, a, p)
    /\ side' = IF h \in DOMAIN cache.orders THEN side ELSE MapPut(side, h, "bid")
    /\ lastOp' = [op |-> "add_bid", known |-> h \in DOMAIN cache.orders]

AddAsk(h, a, p) ==
    /\ UNCHANGED nonCacheVars
    /\ InRange(add_ask(cache, h, a, p))
    /\ cache' = add_ask(cache, h, a, p)
    /\ side' = IF h \in DOMAIN cache.orders THEN side ELSE MapPut(side, h, "ask")
    /\ lastOp' = [op |-> "add_ask", known |-> h \in DOMAIN cache.orders]

CancelOrder(h) ==
    /\ UNCHANGED nonCacheVars
    /\ InRange(cancel_order(cache, h))
    /\ cache' = cancel_order(cache, h)
    /\ side' = MapDel(side, h)
    /\ lastOp' = [op |-> "cancel_order", known |-> h \in DOMAIN cache.orders]

NextCache ==
    \/ \E h \in Hashes, a \in Amounts, p \in PriceKeys : AddBid(h, a, p)
    \/ \E h \in Hashes, a \in Amounts, p \in PriceKeys : AddAsk(h, a, p)
    \/ \E h \in Hashes : CancelOrder(h)


\* ---------------------------------------------------- SpecStream: actions
\* ReconnectingWebsocket.__init__ (and IdexSocketManager.__init__ / create):
\* the fields, and _connect() has scheduled the task that runs _run
StreamNew ==
    /\ ws_reconnects = 0
    /\ ws_wait = 1
    /\ ws_socket = "none"
    /\ ws_pc = "connecting"
    /\ ws_cancel = FALSE
    /\ ws_coros = {}
    /\ ws_subSent = {}
    /\ ws_sender = <<"idle">>
    /\ ws_end = "running"
    /\ ws_report = "none"
    /\ ws_fresh = FALSE
    /\ ws_conns = 0
    /\ ws_cancelCalled = FALSE
    /\ ws_fwdAfterCancel = FALSE
    /\ ws_sendError = "none"
    /\ ws_lastFrame = "none"

InitStream == CacheNew /\ StreamNew /\ ManagerNew(0, FALSE) /\ NoClient

InitCache == CacheNew /\ StreamNew /\ ManagerNew(0, FALSE) /\ NoClient

SpecCache == InitCache /\ [][NextCache]_vars

\* A loop that an invalid frame ends
on_frame_json_fatal(f, coros) ==
    IF f[1] = "badjson" THEN "done"
    ELSE IF f[1] = "topic" THEN (IF f[2] \in coros THEN "handler" ELSE "done")
    ELSE "recv"

\* _run lines 45-51 and _recv lines 105-109: where the task stands after the
\* frame f. A frame that json.loads rejects is dropped, one without 'topic'
\* is returned from _recv at once, one with a topic goes to the handler of
\* the topic (KeyError, which ends the loop, when there is none)
on_frame(f, coros) ==
    IF f[1] = "topic" THEN (IF f[2] \in coros THEN "handler" ELSE "done")
    ELSE "recv"

\* The task takes a step of its own only when no CancelledError is due.
TaskRuns(pc) == ws_pc = pc /\ ~ws_cancel

\* _run lines 32-35: ws.connect succeeded
Connect ==
    /\ UNCHANGED nonStreamVars
    /\ TaskRuns("connecting")
    /\ ws_socket' = "open"
    /\ ws_wait' = MIN_RECONNECT_WAIT
    /\ ws_pc' = "recv"
    /\ ws_subSent' = {}
    /\ ws_fresh' = TRUE
    /\ ws_conns' = ws_conns + 1
    /\ UNCHANGED <<ws_reconnects, ws_cancel, ws_coros, ws_sender, ws_end, ws_report,
                   ws_cancelCalled, ws_fwdAfterCancel, ws_sendError>>
    /\ ws_lastFrame' = "none"

\* _run line 32: ws.connect raises (outside the try): the task ends
ConnectFails ==
    /\ UNCHANGED nonStreamVars
    /\ TaskRuns("connecting")
    /\ ws_pc' = "done"
    /\ ws_end' = "connect_failed"
    /\ ws_fresh' = FALSE
    /\ UNCHANGED <<ws_reconnects, ws_wait, ws_socket, ws_cancel, ws_coros, ws_subSent,
                   ws_sender, ws_report, ws_conns, ws_cancelCalled, ws_fwdAfterCancel,
                   ws_sendError>>
    /\ ws_lastFrame' = "none"

\* _run lines 38, 45-51 with IdexSocketManager._recv (105-109): recv returned f.
\*   not JSON: ValueError, pass, next iteration
\*   no 'topic': _recv returns, next iteration
\*   'topic' m with a handler: the handler of m is awaited
\*   'topic' m without one: KeyError in _recv, caught at line 56, loop ends
RecvFrame(f) ==
    /\ UNCHANGED nonStreamVars
    /\ TaskRuns("recv")
    /\ f \in Frames(ws_subSent)
    /\ ws_pc' = on_frame(f, ws_coros)
    /\ ws_end' = IF on_frame(f, ws_coros) = "done" THEN "handler_exception" ELSE ws_end
    /\ ws_socket' = IF on_frame(f, ws_coros) = "done" THEN "closed" ELSE ws_socket
    /\ ws_fwdAfterCancel' = (ws_fwdAfterCancel \/ (ws_cancelCalled /\ f[1] # "badjson"))
    /\ ws_fresh' = FALSE
    /\ UNCHANGED <<ws_reconnects, ws_wait, ws_cancel, ws_coros, ws_subSent, ws_sender,
                   ws_report, ws_conns, ws_cancelCalled, ws_sendError>>
    /\ ws_lastFrame' = f[1]

\* _run line 51: the awaited handler returns, next iteration
HandlerReturns ==
    /\ UNCHANGED nonStreamVars
    /\ TaskRuns("handler")
    /\ ws_pc' = "recv"
    /\ UNCHANGED <<ws_reconnects, ws_wait, ws_socket, ws_cancel, ws_coros, ws_subSent,
                   ws_sender, ws_end, ws_report, ws_fresh, ws_conns, ws_cancelCalled,
                   ws_fwdAfterCancel, ws_sendError>>
    /\ ws_lastFrame' = "none"

\* _run lines 51, 56-58: the awaited handler raises; except Exception sets
\* keep_waiting = False and the task ends (the socket is closed on the way out)
HandlerRaises ==
    /\ UNCHANGED nonStreamVars
    /\ TaskRuns("handler")
    /\ ws_pc' = "done"
    /\ ws_end' = "handler_exception"
    /\ ws_socket' = "closed"
    /\ UNCHANGED <<ws_reconnects, ws_wait, ws_cancel, ws_coros, ws_subSent, ws_sender,
                   ws_report, ws_fresh, ws_conns, ws_cancelCalled, ws_fwdAfterCancel,
                   ws_sendError>>
    /\ ws_lastFrame' = "none"

\* A loop that counts a read timeout as a reconnect attempt
RecvTimeoutReconnects ==
    /\ UNCHANGED nonStreamVars
    /\ TaskRuns("recv")
    /\ ws_pc' = "ping"
    /\ ws_reconnects' = IF ws_reconnects < MAX_RECONNECTS
                           THEN ws_reconnects + 1 ELSE ws_reconnects
    /\ ws_fresh' = FALSE
    /\ UNCHANGED <<ws_wait, ws_socket, ws_cancel, ws_coros, ws_subSent,
                   ws_sender, ws_end, ws_report, ws_conns, ws_cancelCalled,
                   ws_fwdAfterCancel, ws_sendError>>
    /\ ws_lastFrame' = "none"

\* _run lines 39-41: no frame within TIMEOUT; a ping is sent
RecvTimeout ==
    /\ UNCHANGED nonStreamVars
    /\ TaskRuns("recv")
    /\ ws_pc' = "ping"
    /\ ws_fresh' = FALSE
    /\ UNCHANGED <<ws_reconnects, ws_wait, ws_socket, ws_cancel, ws_coros, ws_subSent,
                   ws_sender, ws_end, ws_report, ws_conns, ws_cancelCalled,
                   ws_fwdAfterCancel, ws_sendError>>
    /\ ws_lastFrame' = "none"

\* _run lines 41 / 44: the ping was written, next iteration
PingDone ==
    /\ UNCHANGED nonStreamVars
    /\ TaskRuns("ping")
    /\ ws_pc' = "recv"
    /\ UNCHANGED <<ws_reconnects, ws_wait, ws_socket, ws_cancel, ws_coros, ws_subSent,
                   ws_sender, ws_end, ws_report, ws_fresh, ws_conns, ws_cancelCalled,
                   ws_fwdAfterCancel, ws_sendError>>
    /\ ws_lastFrame' = "none"

\* _run lines 56-58: recv or ping raises an exception that is not
\* ConnectionClosed; it is logged, keep_waiting = False, and the task ends
\* (the call of _reconnect at line 59 is commented out)
TransportError ==
    /\ UNCHANGED nonStreamVars
    /\ \/ TaskRuns("recv")
       \/ TaskRuns("ping")
    /\ ws_pc' = "done"
    /\ ws_end' = "ws_exception"
    /\ ws_socket' = "closed"
    /\ ws_fresh' = FALSE
    /\ UNCHANGED <<ws_reconnects, ws_wait, ws_cancel, ws_coros, ws_subSent, ws_sender,
                   ws_report, ws_conns, ws_cancelCalled, ws_fwdAfterCancel,
                   ws_sendError>>
    /\ ws_lastFrame' = "none"

\* _run lines 53-55 with _reconnect (61-72): recv or ping raises
\* ConnectionClosed. The "connect" outcome is lines 67-69 (wait *= 3 and a
\* new task by _connect).
ConnectionClosed ==
    /\ UNCHANGED nonStreamVars
    /\ \/ TaskRuns("recv")
       \/ TaskRuns("ping")
    /\ LET r == _reconnect(ws_reconnects)
       IN  /\ ws_reconnects' = r.reconnects
           /\ ws_report' = r.report
           /\ ws_pc' = IF r.next = "connect" THEN "connecting" ELSE "done"
           /\ ws_wait' = IF r.next = "connect" THEN ws_wait * 3 ELSE ws_wait
           /\ ws_end' = IF r.next = "connect" THEN ws_end
                        ELSE IF r.next = "abort" THEN "reconnect_aborted" ELSE "gave_up"
    /\ ws_socket' = "closed"
    /\ ws_cancel' = FALSE
    /\ ws_fresh' = FALSE
    /\ UNCHANGED <<ws_coros, ws_subSent, ws_sender, ws_conns, ws_cancelCalled,
                   ws_fwdAfterCancel, ws_sendError>>
    /\ ws_lastFrame' = "none"

\* ReconnectingWebsocket.cancel (83-84), called by the owner: Task.cancel()
\* on self._conn. A finished task ignores it; otherwise CancelledError is due
\* at the await the task stands at.
Cancel ==
    /\ UNCHANGED nonStreamVars
    /\ ws_cancelCalled' = TRUE
    /\ ws_cancel' = (ws_pc # "done")
    /\ \/ ~ws_cancelCalled
       \/ ws_cancel' # ws_cancel
    /\ UNCHANGED <<ws_reconnects, ws_wait, ws_socket, ws_pc, ws_coros, ws_subSent,
                   ws_sender, ws_end, ws_report, ws_fresh, ws_conns, ws_fwdAfterCancel,
                   ws_sendError>>
    /\ ws_lastFrame' = "none"

\* The task receives the CancelledError.
\*   at wait_for(recv) (line 38): caught at line 42, "cancelled error" is
\*     printed, a ping is sent (line 44) and the loop goes on
\*   at ws.connect (line 32), at the handler (line 51, in the else branch) or
\*     at a ping (lines 41, 44, inside an except branch): not caught by line
\*     42; the task ends
TaskCancelled ==
    /\ UNCHANGED nonStreamVars
    /\ ws_cancel
    /\ ws_pc # "done"
    /\ ws_cancel' = FALSE
    /\ ws_pc' = IF ws_pc = "recv" THEN "ping" ELSE "done"
    /\ ws_end' = IF ws_pc = "recv" THEN ws_end ELSE "cancelled"
    /\ ws_socket' = IF ws_pc \in {"handler", "ping"} THEN "closed" ELSE ws_socket
    /\ ws_fresh' = FALSE
    /\ UNCHANGED <<ws_reconnects, ws_wait, ws_coros, ws_subSent, ws_sender, ws_report,
                   ws_conns, ws_cancelCalled, ws_fwdAfterCancel, ws_sendError>>
    /\ ws_lastFrame' = "none"

\* ReconnectingWebsocket.send_message line 81: self._socket.send(msg)
\*   _socket is None: AttributeError; closed: ConnectionClosed; open: sent
SendOutcome == IF ws_socket = "none" THEN "AttributeError"
               ELSE IF ws_socket = "closed" THEN "ConnectionClosed" ELSE "none"

Sent(kind, m) ==
    IF ws_socket = "open" /\ kind = "subscribe" THEN ws_subSent \cup {m} ELSE ws_subSent

\* IdexSocketManager.subscribe (208-211) / unsubscribe (224-226) with
\* send_message (74-81): the table is changed first; with no socket yet the
\* caller sleeps one second before sending.
Subscribe(m) ==
    /\ UNCHANGED nonStreamVars
    /\ ws_sender = <<"idle">>
    /\ m \notin ws_coros
    /\ ws_coros' = ws_coros \cup {m}
    /\ IF ws_socket = "none"
       THEN /\ ws_sender' = <<"wait", "subscribe", m>>
            /\ UNCHANGED <<ws_subSent, ws_sendError>>
       ELSE /\ ws_subSent' = Sent("subscribe", m)
            /\ ws_sendError' = SendOutcome
            /\ UNCHANGED ws_sender
    /\ UNCHANGED <<ws_reconnects, ws_wait, ws_socket, ws_pc, ws_cancel, ws_end,
                   ws_report, ws_fresh, ws_conns, ws_cancelCalled, ws_fwdAfterCancel>>
    /\ ws_lastFrame' = "none"

Unsubscribe(m) ==
    /\ UNCHANGED nonStreamVars
    /\ ws_sender = <<"idle">>
    /\ m \in ws_coros
    /\ ws_coros' = ws_coros \ {m}
    /\ IF ws_socket = "none"
       THEN /\ ws_sender' = <<"wait", "unsubscribe", m>>
            /\ UNCHANGED <<ws_subSent, ws_sendError>>
       ELSE /\ ws_subSent' = Sent("unsubscribe", m)
            /\ ws_sendError' = SendOutcome
            /\ UNCHANGED ws_sender
    /\ UNCHANGED <<ws_reconnects, ws_wait, ws_socket, ws_pc, ws_cancel, ws_end,
                   ws_report, ws_fresh, ws_conns, ws_cancelCalled, ws_fwdAfterCancel>>
    /\ ws_lastFrame' = "none"

\* send_message lines 80-81: the sleep is over, the message is sent
SendAfterWait ==
    /\ UNCHANGED nonStreamVars
    /\ ws_sender[1] = "wait"
    /\ ws_sender' = <<"idle">>
    /\ ws_subSent' = Sent(ws_sender[2], ws_sender[3])
    /\ ws_sendError' = SendOutcome
    /\ UNCHANGED <<ws_reconnects, ws_wait, ws_socket, ws_pc, ws_cancel, ws_coros,
                   ws_end, ws_report, ws_fresh, ws_conns, ws_cancelCalled,
                   ws_fwdAfterCancel>>
    /\ ws_lastFrame' = "none"

NextStream ==
    \/ Connect
    \/ ConnectFails
    \/ \E f \in Frames(Markets) : RecvFrame(f)
    \/ HandlerReturns
    \/ HandlerRaises
    \/ RecvTimeout
    \/ PingDone
    \/ ConnectionClosed
    \/ TransportError
    \/ Cancel
    \/ TaskCancelled
    \/ \E m \in Markets : Subscribe(m)
    \/ \E m \in Markets : Unsubscribe(m)
    \/ SendAfterWait

SpecStream == InitStream /\ [][NextStream]_vars

\* --------------------------------------------------- SpecManager: actions
InitManager ==
    /\ CacheNew
    /\ StreamNew
    /\ \E i \in {0, RefreshInterval}, c \in BOOLEAN : ManagerNew(i, c)
    /\ NoClient

Closed == [dc |-> None, bidsFrom |-> 0, asksFrom |-> 0]

\* create lines 194-195 and _init_cache lines 205-206: the socket is started
\* and subscribed, a new DepthCache replaces the current one, and the caller
\* waits for the order book
StartSocket ==
    /\ UNCHANGED nonManagerVars
    /\ m_create = "start"
    /\ m_create' = "loading"
    /\ m_stream' = "idle"
    /\ m_preLoad' = m_depth.dc
    /\ m_depth' = Fresh
    /\ m_loads' = m_loads + 1
    /\ UNCHANGED <<m_interval, m_coro, m_cancel, m_refreshTime, m_now, m_fault, m_closed>>
    /\ m_book' = NoBook
    /\ m_last' = "none"

\* _init_cache lines 206-216 in create: the order book arrives and is loaded
CreateFetchReturns(res) ==
    /\ UNCHANGED nonManagerVars
    /\ m_create = "loading"
    /\ m_create' = "returned"
    /\ DepthInRange(load_order_book(m_depth, res, m_loads).dc)
    /\ m_depth' = load_order_book(m_depth, res, m_loads)
    /\ m_refreshTime' = IF m_interval # 0 THEN m_now + m_interval ELSE m_refreshTime
    /\ UNCHANGED <<m_interval, m_coro, m_stream, m_cancel, m_now, m_loads, m_preLoad,
                   m_fault, m_closed>>
    /\ m_book' = res
    /\ m_last' = "none"

\* _init_cache line 206 in create: get_order_book raises, and so does create
CreateFetchRaises ==
    /\ UNCHANGED nonManagerVars
    /\ m_create = "loading"
    /\ m_create' = "raised"
    /\ m_fault' = "initial_fetch"
    /\ UNCHANGED <<m_interval, m_coro, m_stream, m_cancel, m_depth, m_refreshTime, m_now,
                   m_loads, m_preLoad, m_closed, m_book>>
    /\ m_last' = "none"

\* A refresh check that reloads after every event once a deadline exists
after_callback_every_event(st) ==
    IF m_interval = 0
    THEN [stream |-> "idle", depth |-> st, preLoad |-> DepthCacheNew, loads |-> m_loads,
          fault |-> m_fault]
    ELSE IF m_refreshTime = Unset
    THEN [stream |-> "dead", depth |-> st, preLoad |-> DepthCacheNew, loads |-> m_loads,
          fault |-> "no_refresh_time"]
    ELSE [stream |-> "loading", depth |-> Fresh, preLoad |-> st.dc, loads |-> m_loads + 1,
          fault |-> m_fault]

\* _depth_event lines 288-290, and _init_cache lines 205-206 when the refresh
\* is due: where the handler stands next, from the depth cache st
after_callback(st) ==
    IF m_interval = 0
    THEN [stream |-> "idle", depth |-> st, preLoad |-> DepthCacheNew, loads |-> m_loads,
          fault |-> m_fault]
    ELSE IF m_refreshTime = Unset
    THEN [stream |-> "dead", depth |-> st, preLoad |-> DepthCacheNew, loads |-> m_loads,
          fault |-> "no_refresh_time"]
    ELSE IF m_now > m_refreshTime
    THEN [stream |-> "loading", depth |-> Fresh, preLoad |-> st.dc, loads |-> m_loads + 1,
          fault |-> m_fault]
    ELSE [stream |-> "idle", depth |-> st, preLoad |-> DepthCacheNew, loads |-> m_loads,
          fault |-> m_fault]

\* A handler that applies the event and goes on to the refresh check without
\* calling the callback
depth_event_no_callback(msg) ==
    IF msg.event = "none"
    THEN [stream |-> "idle", depth |-> m_depth, preLoad |-> DepthCacheNew, loads |-> m_loads,
          fault |-> m_fault]
    ELSE after_callback([m_depth EXCEPT !.dc = IF m_depth.dc = None THEN None
                                               ELSE apply_event(m_depth.dc, msg)])

\* _depth_event lines 239-286: the handler up to the callback, and past it
\* when there is none
depth_event(msg) ==
    IF msg.event = "none"
    THEN [stream |-> "idle", depth |-> m_depth, preLoad |-> DepthCacheNew, loads |-> m_loads,
          fault |-> m_fault]
    ELSE IF m_depth.dc = None /\ msg.event # "market_trades"
    THEN [stream |-> "dead", depth |-> m_depth, preLoad |-> DepthCacheNew, loads |-> m_loads,
          fault |-> "no_depth_cache"]
    ELSE LET st == [m_depth EXCEPT !.dc = IF m_depth.dc = None THEN None
                                          ELSE apply_event(m_depth.dc, msg)]
         IN  IF m_coro
             THEN [stream |-> "callback", depth |-> st, preLoad |-> DepthCacheNew,
                   loads |-> m_loads, fault |-> m_fault]
             ELSE after_callback(st)

HandlerStep(r) ==
    /\ m_stream' = r.stream
    /\ m_depth' = r.depth
    /\ m_preLoad' = r.preLoad
    /\ m_loads' = r.loads
    /\ m_fault' = r.fault
    /\ UNCHANGED <<m_interval, m_coro, m_create, m_cancel, m_refreshTime, m_now, m_closed>>
    /\ m_book' = (IF r.stream = "loading" THEN NoBook ELSE m_book)

\* A stream loop that hands a message to _depth_event without awaiting the
\* handler of the message before
DepthEventUnawaited(msg) ==
    /\ UNCHANGED nonManagerVars
    /\ m_stream \in {"idle", "callback", "loading"} /\ ~m_cancel
    /\ LET r == depth_event(msg)
       IN  /\ DepthInRange(r.depth.dc)
           /\ DepthInRange(r.preLoad)
           /\ HandlerStep(r)
    /\ m_last' = msg.event

\* The stream task receives a message and awaits _depth_event(msg)
DepthEvent(msg) ==
    /\ UNCHANGED nonManagerVars
    /\ m_stream = "idle" /\ ~m_cancel
    /\ LET r == depth_event(msg)
       IN  /\ DepthInRange(r.depth.dc)
           /\ DepthInRange(r.preLoad)
           /\ HandlerStep(r)
    /\ m_last' = msg.event

\* _depth_event line 286: the callback returns
CallbackReturns ==
    /\ UNCHANGED nonManagerVars
    /\ m_stream = "callback" /\ ~m_cancel
    /\ HandlerStep(after_callback(m_depth))
    /\ m_last' = "none"

\* _depth_event line 286: the callback raises
CallbackRaises ==
    /\ UNCHANGED nonManagerVars
    /\ m_stream = "callback" /\ ~m_cancel
    /\ m_stream' = "dead"
    /\ m_fault' = "callback"
    /\ UNCHANGED <<m_interval, m_coro, m_create, m_cancel, m_depth, m_refreshTime, m_now,
                   m_loads, m_preLoad, m_closed, m_book>>
    /\ m_last' = "none"

\* _init_cache lines 206-216 in _depth_event: the order book arrives
RefreshFetchReturns(res) ==
    /\ UNCHANGED nonManagerVars
    /\ m_stream = "loading" /\ ~m_cancel
    /\ m_stream' = "idle"
    /\ DepthInRange(load_order_book(m_depth, res, m_loads).dc)
    /\ m_depth' = load_order_book(m_depth, res, m_loads)
    /\ m_refreshTime' = m_now + m_interval
    /\ UNCHANGED <<m_interval, m_coro, m_create, m_cancel, m_now, m_loads, m_preLoad,
                   m_fault, m_closed>>
    /\ m_book' = res
    /\ m_last' = "none"

\* _init_cache line 206 in _depth_event: get_order_book raises, the exception
\* leaves _depth_event and ends the stream task
RefreshFetchRaises ==
    /\ UNCHANGED nonManagerVars
    /\ m_stream = "loading" /\ ~m_cancel
    /\ m_stream' = "dead"
    /\ m_fault' = "refresh_fetch"
    /\ UNCHANGED <<m_interval, m_coro, m_create, m_cancel, m_depth, m_refreshTime, m_now,
                   m_loads, m_preLoad, m_closed, m_book>>
    /\ m_last' = "none"

\* A second passes
Tick ==
    /\ UNCHANGED nonManagerVars
    /\ m_now < MaxTime
    /\ m_now' = m_now + 1
    /\ UNCHANGED <<m_interval, m_coro, m_create, m_stream, m_cancel, m_depth, m_refreshTime,
                   m_loads, m_preLoad, m_fault, m_closed, m_book>>
    /\ m_last' = "none"

\* close lines 305-306: the stream task is cancelled, the depth cache dropped
Close ==
    /\ UNCHANGED nonManagerVars
    /\ m_create = "returned" /\ ~m_closed
    /\ m_closed' = TRUE
    /\ m_cancel' = (m_stream # "dead")
    /\ m_depth' = Closed
    /\ UNCHANGED <<m_interval, m_coro, m_create, m_stream, m_refreshTime, m_now, m_loads,
                   m_preLoad, m_fault, m_book>>
    /\ m_last' = "none"

\* The CancelledError reaches the stream task: caught while it waits for a
\* message, fatal inside _depth_event
StreamCancelled ==
    /\ UNCHANGED nonManagerVars
    /\ m_cancel
    /\ m_cancel' = FALSE
    /\ m_stream' = IF m_stream = "idle" THEN "idle" ELSE "dead"
    /\ m_fault' = IF m_stream = "idle" THEN m_fault ELSE "cancelled"
    /\ UNCHANGED <<m_interval, m_coro, m_create, m_depth, m_refreshTime, m_now, m_loads,
                   m_preLoad, m_closed, m_book>>
    /\ m_last' = "none"

NextManager ==
    \/ StartSocket
    \/ \E res \in OrderBooks : CreateFetchReturns(res)
    \/ CreateFetchRaises
    \/ \E msg \in Events : DepthEvent(msg)
    \/ CallbackReturns
    \/ CallbackRaises
    \/ \E res \in OrderBooks : RefreshFetchReturns(res)
    \/ RefreshFetchRaises
    \/ Tick
    \/ Close
    \/ StreamCancelled

SpecManager == InitManager /\ [][NextManager]_vars

\* The manager under the scheduling the event loop gives it: a task that can
\* run does run, a REST request is answered or fails, a callback ends, time
\* passes. When a stream event arrives, and whether close() is called, is up
\* to the exchange and the caller: no fairness for DepthEvent and Close.
FairManager ==
    /\ WF_vars(StartSocket)
    /\ WF_vars((\E res \in OrderBooks : CreateFetchReturns(res)) \/ CreateFetchRaises)
    /\ WF_vars(CallbackReturns \/ CallbackRaises)
    /\ WF_vars((\E res \in OrderBooks : RefreshFetchReturns(res)) \/ RefreshFetchRaises)
    /\ WF_vars(Tick)
    /\ WF_vars(StreamCancelled)

SpecManagerFair == InitManager /\ [][NextManager]_vars /\ FairManager

\* ---------------------------------------------------- SpecClient: actions
InitClient ==
    /\ CacheNew
    /\ StreamNew
    /\ ManagerNew(0, FALSE)
    /\ \E kind \in Kinds, a, k \in Credentials : ClientNew(kind, a, k)

Self == [kind |-> cl_kind, address |-> cl_address, key |-> cl_key]

\* One operation called and answered: _request keeps the response in
\* _last_response (idex/client.py) and hands it to _handle_response; a guard
\* that raises leaves before any of it
ClientCall(op, response) ==
    /\ UNCHANGED nonClientVars
    /\ cl_requests < MaxRequests
    /\ op \in Operations(cl_kind)
    /\ LET r == call(Self, op, response) IN
        /\ cl_out' = r
        /\ cl_requests' = IF r.sent THEN cl_requests + 1 ELSE cl_requests
        /\ cl_lastResponse' = IF r.sent /\ cl_kind \in ClientPy
                                THEN response ELSE cl_lastResponse
    /\ cl_call' = [op |-> op, response |-> response]
    /\ UNCHANGED <<cl_kind, cl_address, cl_key>>

NextClient ==
    \E op \in {"get_tickers"} \cup Guarded, response \in Responses :
        ClientCall(op, response)

SpecClient == InitClient /\ [][NextClient]_vars

\* ------------------------------------------------------------ claims: C1
\* C1 (idempotent add): in every reachable DepthCache state, add_bid and
\* add_ask of a hash that is already indexed return the state (bids, asks and
\* the order index) unchanged for any amount and price; an add indexes its
\* hash, so a second add of the same hash is such a call and changes nothing.
C1_IdempotentAdd ==
    /\ \A h \in DOMAIN cache.orders, a \in Amounts, p \in PriceKeys :
          /\ add_bid(cache, h, a, p) = cache
          /\ add_ask(cache, h, a, p) = cache
    /\ \A h \in Hashes, a \in Amounts, p \in PriceKeys :
          /\ h \in DOMAIN add_bid(cache, h, a, p).orders
          /\ h \in DOMAIN add_ask(cache, h, a, p).orders

\* A duplicate add has been made on a book that holds two orders.
C1_Witness ==
    /\ lastOp.op \in {"add_bid", "add_ask"}
    /\ lastOp.known
    /\ Cardinality(DOMAIN cache.orders) >= 2

\* ------------------------------------------------------------ claims: C2
RECURSIVE SumAmounts(_, _)
SumAmounts(orders, hs) ==
    IF hs = {} THEN 0
    ELSE LET h == CHOOSE x \in hs : TRUE
         IN  orders[h][2] + SumAmounts(orders, hs \ {h})

\* The orders of the index that were added to side s at price p
OrdersAt(s, p) ==
    {h \in DOMAIN cache.orders : side[h] = s /\ cache.orders[h][1] = p}

\* C2 (level sum): for each side and each price key present on it, the level
\* quantity is the sum of the amounts of the indexed orders that were added
\* to that side at that price.
C2_LevelSum ==
    /\ \A p \in DOMAIN cache.bids :
          cache.bids[p] = SumAmounts(cache.orders, OrdersAt("bid", p))
    /\ \A p \in DOMAIN cache.asks :
          cache.asks[p] = SumAmounts(cache.orders, OrdersAt("ask", p))

\* ------------------------------------------------------- claims: C3 - C5
\* The manager is in use (create returned, close not called) and its stream
\* task waits for the order book of a periodic refresh
RefreshInFlight == m_create = "returned" /\ ~m_closed /\ m_stream = "loading"

\* C3 (get_depth_cache never exposes a snapshot in progress): while a
\* periodic refresh waits for its order book, get_depth_cache() returns the
\* depth cache as it was before the refresh began.
C3_NoSnapshotInProgress == RefreshInFlight => m_depth.dc = m_preLoad

\* C4 (a refresh whose fetch fails keeps the state): once get_order_book has
\* raised in a periodic refresh, the depth cache of the manager is the one it
\* had before the refresh began.
C4_FailedRefreshKeepsState ==
    (m_fault = "refresh_fetch" /\ ~m_closed) => m_depth.dc = m_preLoad

\* C5 (a snapshot replaces both sides at once): in every state a reader can
\* observe, the bids and the asks of the depth cache come from the same load
\* (both from the new order book, or both from none while it is awaited),
\* never the bids from one load and the asks from another.
C5_SidesFromSameLoad == m_depth.bidsFrom = m_depth.asksFrom

\* A periodic refresh has just replaced a depth cache with orders on both
\* sides by a different order book with orders on both sides
C5_Witness ==
    /\ m_create = "returned" /\ ~m_closed /\ m_stream = "idle"
    /\ m_loads = 2 /\ m_depth.bidsFrom = 2 /\ m_depth.asksFrom = 2
    /\ m_preLoad.bids # EmptyMap /\ m_preLoad.asks # EmptyMap
    /\ m_depth.dc.bids # EmptyMap /\ m_depth.dc.asks # EmptyMap
    /\ m_depth.dc.bids # m_preLoad.bids

\* ------------------------------------------------------------ claims: C11
\* C11 (close discards the state for good): once close() has been called,
\* get_depth_cache() returns None in every later state; no event handler and
\* no refresh installs a depth cache again.
C11_ClosedStaysDiscarded == m_closed => m_depth.dc = None

\* ------------------------------------------------------------ claims: C12
\* Every order of the order book is in the depth cache as the book lists it:
\* indexed with its price and amount, and counted in the level of its side
BookApplied(book, dc) ==
    /\ \A h \in book.bids :
          /\ h \in DOMAIN dc.orders
          /\ dc.orders[h] = <<RestOrder(h).price, RestOrder(h).amount>>
          /\ RestOrder(h).price \in DOMAIN dc.bids
          /\ dc.bids[RestOrder(h).price] >= RestOrder(h).amount
    /\ \A h \in book.asks :
          /\ h \in DOMAIN dc.orders
          /\ dc.orders[h] = <<RestOrder(h).price, RestOrder(h).amount>>
          /\ RestOrder(h).price \in DOMAIN dc.asks
          /\ dc.asks[RestOrder(h).price] >= RestOrder(h).amount

\* C12 (create completes the initial load): in the step in which create
\* returns, every bid and ask of the order book the REST client returned is
\* applied to the depth cache get_depth_cache() returns; and when the initial
\* fetch raises, create raises and returns no manager.
C12_CreateLoadsBook ==
    [][/\ (m_create = "loading" /\ m_create' = "returned")
            => BookApplied(m_book', m_depth'.dc)
       /\ (m_create = "loading" /\ m_fault' = "initial_fetch")
            => m_create' = "raised"]_vars

\* ------------------------------------------------------------ claims: C13
\* The side an order belongs to: an order that buys the base token is an ask
SideOf(h) == IF WireOrder(h).tokenBuy = BaseToken THEN "ask" ELSE "bid"

\* The indexed orders of side s at price p
DepthOrdersAt(dc, s, p) ==
    {h \in DOMAIN dc.orders : SideOf(h) = s /\ dc.orders[h][1] = p}

\* Every level is the sum of the indexed orders of its side at its price, and
\* every indexed order has its level
DepthConsistent(dc) ==
    /\ \A p \in DOMAIN dc.bids :
          dc.bids[p] = SumAmounts(dc.orders, DepthOrdersAt(dc, "bid", p))
    /\ \A p \in DOMAIN dc.asks :
          dc.asks[p] = SumAmounts(dc.orders, DepthOrdersAt(dc, "ask", p))
    /\ \A h \in DOMAIN dc.orders :
          dc.orders[h][1] \in DOMAIN (IF SideOf(h) = "bid" THEN dc.bids ELSE dc.asks)

\* The depth cache after a market_cancels event that names h
AfterCancelOf(h) ==
    apply_event(m_depth.dc, [event |-> "market_cancels", cancels |-> <<h>>])

\* The manager holds a loaded order book (no reload begun since), its levels
\* are the sums of its orders, and the stream task can take the next event
LoadedAndLive ==
    /\ m_create = "returned" /\ m_stream = "idle" /\ ~m_cancel
    /\ m_depth.dc # None
    /\ DepthConsistent(m_depth.dc)

\* C13 (snapshot then cancel): with an order book containing h loaded, a
\* market_cancels event naming h leaves h out of the order index and out of
\* every level (the levels are the sums of the orders still indexed); when h
\* was the only bid, no bid level is left.
C13_SnapshotThenCancel ==
    LoadedAndLive =>
        \A h \in (m_book.bids \cup m_book.asks) \cap DOMAIN m_depth.dc.orders :
            /\ h \notin DOMAIN AfterCancelOf(h).orders
            /\ DepthConsistent(AfterCancelOf(h))
            /\ DepthOrdersAt(m_depth.dc, "bid", m_depth.dc.orders[h][1]) = {h}
                 => m_depth.dc.orders[h][1] \notin DOMAIN AfterCancelOf(h).bids

\* ------------------------------------------------------------ claims: C14
\* C14 (remove-unknown is safe): in every reachable DepthCache state,
\* cancel_order of a hash that is not in the order index returns normally and
\* leaves bids, asks and the order index as they were.
C14_RemoveUnknown ==
    \A h \in Hashes \ DOMAIN cache.orders : cancel_order(cache, h) = cache

\* cancel_order was just called with a hash that was not indexed, on a cache
\* that holds orders on both sides
C14_Witness ==
    /\ lastOp.op = "cancel_order" /\ ~lastOp.known
    /\ cache.bids # EmptyMap /\ cache.asks # EmptyMap
    /\ Cardinality(DOMAIN cache.orders) = 2

\* ------------------------------------------------------------ claims: C15
\* The levels of side s
LevelsOf(dc, s) == IF s = "bid" THEN dc.bids ELSE dc.asks

\* C15 (level lifecycle): when h is the only indexed order of its side at
\* its price p, cancel_order(h) leaves no level at p on that side, so that
\* get_bids() / get_asks() has no entry for p.
C15_LevelLifecycle ==
    \A h \in DOMAIN cache.orders :
        OrdersAt(side[h], cache.orders[h][1]) = {h}
            => cache.orders[h][1] \notin DOMAIN LevelsOf(cancel_order(cache, h), side[h])

\* ------------------------------------------------------------ claims: C16
\* The depth cache after the first n orders of the payload
RECURSIVE orders_prefix(_, _, _)
orders_prefix(dc, orders, n) ==
    IF n = 0 THEN dc ELSE order_event(orders_prefix(dc, orders, n - 1), orders, n)

\* Order i of the payload, handled in the depth cache dc, went to the asks
\* only (asks = TRUE) or to the bids only
AddedTo(dc, orders, i, asks) ==
    LET before == orders_prefix(dc, orders, i - 1)
        after == orders_prefix(dc, orders, i)
        known == orders[i] \in DOMAIN before.orders
    IN  /\ orders[i] \in DOMAIN after.orders
        /\ IF asks THEN after.bids = before.bids /\ (~known => after.asks # before.asks)
           ELSE after.asks = before.asks /\ (~known => after.bids # before.bids)

\* C16 (order-add classification): every order of a market_orders event
\* whose tokenBuy is the base token is added with add_ask and never with
\* add_bid, and every other order with add_bid and never with add_ask.
C16_Classification ==
    m_depth.dc # None =>
        \A orders \in Batches : \A i \in DOMAIN orders :
            AddedTo(m_depth.dc, orders, i, WireOrder(orders[i]).tokenBuy = BaseToken)

\* An empty order book was loaded and market_orders events have since added
\* the bid h1 and the ask h2
C16_Witness ==
    /\ m_create = "returned" /\ m_book = NoBook /\ m_loads = 1
    /\ m_depth.dc # None
    /\ {"h1", "h2"} \subseteq DOMAIN m_depth.dc.orders
    /\ m_depth.dc.bids # EmptyMap /\ m_depth.dc.asks # EmptyMap

C18_TradesDoNotMutate ==
    [][m_last' = "market_trades"
          => \/ m_depth'.dc = m_depth.dc
             \/ m_stream' = "loading" /\ m_depth' = Fresh]_vars

\* A market_trades frame was just handled by a manager whose depth cache
\* holds orders on both sides, with no refresh begun
C18_Witness ==
    /\ m_last = "market_trades" /\ m_stream \in {"idle", "callback"}
    /\ m_create = "returned" /\ ~m_closed
    /\ m_depth.dc.bids # EmptyMap /\ m_depth.dc.asks # EmptyMap

\* ------------------------------------------------------------ claims: C19
\* The list has one [price, quantity] entry for each level of vals
OneEntryPerLevel(lst, vals) ==
    /\ Len(lst) = Cardinality(DOMAIN vals)
    /\ \A p \in DOMAIN vals : \E i \in 1..Len(lst) : lst[i] = <<float(p), vals[p]>>

\* C19 (sort order): in every DepthCache state get_bids() lists the bid
\* levels by strictly descending price and get_asks() lists the ask levels by
\* strictly ascending price, each with exactly one entry for each level.
C19_SortOrder ==
    /\ \A lst \in get_bids(cache) :
          /\ OneEntryPerLevel(lst, cache.bids)
          /\ \A i \in 1..(Len(lst) - 1) : lst[i][1] > lst[i + 1][1]
    /\ \A lst \in get_asks(cache) :
          /\ OneEntryPerLevel(lst, cache.asks)
          /\ \A i \in 1..(Len(lst) - 1) : lst[i][1] < lst[i + 1][1]

\* ------------------------------------------------------------ claims: C20
\* C20 (malformed frames are discarded locally): the step that receives a
\* frame which is not valid JSON does not forward it to the handler, changes
\* no book state, does not end the inbound loop and starts no reconnect: the
\* task is back in recv on the same open socket for the next frame.
C20_BadFrameDiscarded ==
    [][ws_lastFrame' = "badjson"
          => /\ ws_pc' = "recv" /\ ws_end' = "running" /\ ws_socket' = "open"
             /\ UNCHANGED <<ws_reconnects, ws_wait, ws_conns, ws_coros, ws_subSent>>
             /\ UNCHANGED <<cacheVars, mgrVars>>]_vars

\* An invalid frame was just received on a stream with a subscription
C20_Witness ==
    /\ ws_lastFrame = "badjson" /\ ws_pc = "recv" /\ ws_socket = "open"
    /\ ws_coros # {} /\ ws_subSent # {}

\* ------------------------------------------------------------ claims: C6
\* C6 (handler faults never end the inbound loop): the task that runs the
\* inbound loop is never ended by an exception of the frame handler (the
\* dispatcher _recv or the handler it awaits).
C6_HandlerFaultsContained ==
    ~(ws_pc = "done" /\ ws_end = "handler_exception")

\* ------------------------------------------------------------ claims: C7
\* The stream has stopped for good: its task is over and no other was started
\* (a task is started by __init__ and by _reconnect only).
StreamStopped == ws_pc = "done"

\* C7 (reconnect liveness): when the inbound loop ended because the transport
\* closed or on an unexpected error, below the attempt cap and without a
\* cancel() by the owner, the stream does not stop: a new connection follows.
C7_ReconnectsAfterFault ==
    ~(/\ StreamStopped
      /\ ws_end \in {"reconnect_aborted", "ws_exception"}
      /\ ws_reconnects < MAX_RECONNECTS
      /\ ~ws_cancelCalled)

C10_CancelStops ==
    ~ws_fwdAfterCancel

\* ------------------------------------------------------------ claims: C21
\* The step in which recv times out: the task stood in recv with no
\* cancellation due and stands at the ping
TimeoutStep == ws_pc = "recv" /\ ~ws_cancel /\ ws_pc' = "ping"

\* C21 (idle is not fatal): a read timeout sends a ping on the same open
\* connection and changes neither the reconnect counter nor the connection,
\* and when the ping is written the loop waits on that same connection again;
\* no reconnect is started.
C21_IdleNotFatal ==
    [][/\ TimeoutStep
            => /\ ws_socket' = "open" /\ ws_end' = "running"
               /\ UNCHANGED <<ws_reconnects, ws_wait, ws_socket, ws_conns>>
       /\ (ws_pc = "ping" /\ ws_pc' = "recv")
            => /\ ws_socket' = "open" /\ ws_end' = "running"
               /\ UNCHANGED <<ws_reconnects, ws_wait, ws_socket, ws_conns>>]_vars

\* A read timed out on a subscribed stream nobody cancelled: the ping is
\* being sent
C21_Witness ==
    /\ ws_pc = "ping" /\ ~ws_cancelCalled /\ ws_socket = "open"
    /\ ws_reconnects = 0 /\ ws_subSent # {}

\* ------------------------------------------------------------ claims: C22
\* The last call was answered by a response of idex/client.py's clients
Answered ==
    /\ cl_call # NoCall
    /\ cl_kind \in ClientPy
    /\ cl_out.sent

\* C22 (typed outcome of a REST call): for Client and AsyncClient, a response
\* whose status is not 2xx ends the call with IdexAPIException, a 2xx response
\* whose body is not valid JSON ends it with IdexRequestException, and any
\* other response ends it by returning the parsed body.
C22_TypedOutcome ==
    Answered =>
        LET response == cl_call.response IN
        cl_out = IF ~Is2xx(response.status)
                   THEN Raise("IdexAPIException", TRUE)
                 ELSE IF response.body = "invalid"
                   THEN Raise("IdexRequestException", TRUE)
                 ELSE Return(response.body)

\* ------------------------------------------------------------ claims: C23
\* The credential an operation's guards find missing first, "none" when the
\* operation runs
Missing(op) ==
    CASE op = "get_my_open_orders" /\ ~Truthy(cl_address) -> "address"
      [] op = "cancel_order" /\ ~Truthy(cl_address) -> "address"
      [] op = "cancel_order" /\ ~Truthy(cl_key) -> "private_key"
      [] OTHER -> "none"

RefreshDue ==
    /\ m_interval # 0
    /\ m_create = "returned"
    /\ ~m_closed
    /\ m_refreshTime # Unset
    /\ m_now > m_refreshTime

\* C24 (a due refresh happens): with a non-zero refresh interval, once the
\* refresh deadline has passed a snapshot load eventually starts, unless the
\* manager is closed; stream events need not arrive for it.
C24_RefreshEventually ==
    [](RefreshDue => <>(m_stream = "loading" \/ m_closed))

\* ------------------------------------------------------------ claims: C25
\* C25 (levels are positive): after any sequence of add_bid, add_ask and
\* cancel_order every price level present on either side has a quantity
\* greater than zero; a cancellation never leaves a negative level.
C25_PositiveLevels ==
    /\ \A p \in DOMAIN cache.bids : cache.bids[p] > 0
    /\ \A p \in DOMAIN cache.asks : cache.asks[p] > 0

\* ------------------------------------------------------------ claims: C26
\* The (price, amount) an order's own amountBuy and amountSell give
OwnEntry(h) ==
    LET order == WireOrder(h) IN
    IF order.tokenBuy = BaseToken
    THEN LET sell_parsed == parse_from_currency_quantity(QuoteToken, order.amountSell)
             buy_parsed == parse_from_currency_quantity(BaseToken, order.amountBuy)
         IN  <<price_of(buy_parsed, sell_parsed), sell_parsed>>
    ELSE LET sell_parsed == parse_from_currency_quantity(BaseToken, order.amountSell)
             buy_parsed == parse_from_currency_quantity(QuoteToken, order.amountBuy)
         IN  <<price_of(sell_parsed, buy_parsed), buy_parsed>>

\* C26 (each order by its own amounts): every order of a market_orders batch
\* that is added to the book is added with the amount and the price computed
\* from its own amountBuy and amountSell.
C26_OwnAmounts ==
    (m_stream = "idle" /\ m_depth.dc # None) =>
        \A orders \in Batches : \A i \in DOMAIN orders :
            LET before == orders_prefix(m_depth.dc, orders, i - 1)
                after == orders_prefix(m_depth.dc, orders, i)
            IN  orders[i] \notin DOMAIN before.orders =>
                    after.orders[orders[i]] = OwnEntry(orders[i])

\* ------------------------------------------------------------ claims: C27
\* A handler of the manager is active: it awaits the callback or the order
\* book of the refresh it started
HandlerActive == m_stream \in {"callback", "loading"}

\* C27 (frame serialization): a frame is handed to the handler only when no
\* handler is active, the callback and the refresh of the frame before it
\* have completed; while a handler is active no frame is delivered, so the
\* book is mutated in delivery order.
C27_FrameSerialization ==
    [][/\ m_last' # "none" => (m_stream = "idle" /\ ~HandlerActive)
       /\ HandlerActive => m_last' = "none"]_vars

\* A frame has been handled after the handler of an earlier frame had
\* refreshed the book
C27_Witness ==
    /\ m_last = "market_orders"
    /\ m_loads >= 2
    /\ m_stream = "idle"
    /\ m_depth.dc # None

\* ------------------------------------------------------------ claims: C28
\* The step completes a load: create's, or the one a handler started
LoadCompletes ==
    \/ m_create = "loading" /\ m_create' = "returned"
    \/ m_stream = "loading" /\ m_stream' = "idle"

\* The step takes a handler through the check that follows the callback:
\* the handler of the frame delivered when there is no callback, or the
\* return of the callback
RefreshChecked ==
    \/ m_last' \notin {"none"} /\ ~m_coro /\ m_fault' # "no_depth_cache"
    \/ m_stream = "callback" /\ m_stream' # "callback" /\ m_fault' \notin {"callback", "cancelled"}

\* The step starts a load other than the initial one
ReloadStarts == m_create # "start" /\ m_loads' = m_loads + 1

\* The deadline the most recent load recorded has passed
PastDeadline == m_interval # 0 /\ m_refreshTime # Unset /\ m_now > m_refreshTime

\* C28 (refresh rule): with the interval 0 no load but the initial one
\* occurs; with a non-zero interval every completed load records the deadline
\* load time + interval; and a reload starts only in a handler's check after
\* the callback, and there exactly when the time is past the deadline the
\* most recent load recorded.
C28_RefreshRule ==
    [][/\ m_interval = 0 => m_loads' <= 1
       /\ (LoadCompletes /\ m_interval # 0) => m_refreshTime' = m_now + m_interval
       /\ ReloadStarts => (RefreshChecked /\ m_stream' = "loading")
       /\ RefreshChecked => (ReloadStarts <=> PastDeadline)]_vars

\* A handler found the deadline passed and the reload is in flight
C28_Witness ==
    /\ m_stream = "loading" /\ m_loads = 2
    /\ m_interval = RefreshInterval
    /\ m_refreshTime = RefreshInterval /\ m_now > m_refreshTime

\* ------------------------------------------------------------ claims: C29
\* The request of create's load is in flight and the stream task can take
\* an event
LoadInFlight ==
    /\ m_create = "loading"
    /\ m_stream = "idle" /\ ~m_cancel
    /\ m_depth.dc # None

\* The depth cache once a market_cancels event naming h has been handled and
\* the order book res has then arrived and been loaded
CancelThenLoad(h, res) ==
    load_order_book([m_depth EXCEPT !.dc = AfterCancelOf(h)], res, m_loads).dc

\* C29 (no cancel lost across a load): when a market_cancels event for h is
\* handled while the request of a load is in flight and the order book then
\* loaded still contains h, h is not in the depth cache after the load.
C29_NoCancelLost ==
    LoadInFlight =>
        \A res \in OrderBooks : \A h \in res.bids \cup res.asks :
            h \notin DOMAIN CancelThenLoad(h, res).orders

\* ------------------------------------------------------------ claims: C30
\* The transport has closed (_reconnects counts the closures), below the
\* attempt cap and without a cancel() by the owner
AfterClosure ==
    /\ ws_reconnects >= 1
    /\ ws_reconnects < MAX_RECONNECTS
    /\ ~ws_cancelCalled

\* A connection made after the first is open, and every market of the
\* subscription table has had its subscribe request sent on it
Resubscribed ==
    /\ ws_socket = "open" /\ ws_conns >= 2
    /\ ws_coros \subseteq ws_subSent

====
